---- MODULE Spec2Model ----
(***************************************************************************)
(* Model of the three database utility scripts under src-tauri/src:        *)
(*   insertSchoolAccounts.py  insert_data (the seeder)                     *)
(*   showTable.py             show_tables_and_columns                      *)
(*   showSchoolAccounts.py    show_tables_and_columns, then                *)
(*                            show_school_account_details                  *)
(* A behaviour is a sequence of script invocations, one process at a time. *)
(* Each function is modelled statement group by statement group (pc), with *)
(* sqlite3's transaction rules: an INSERT opens a transaction implicitly,  *)
(* commit() makes the pending rows durable, close() discards them.         *)
(* Rows are tuples in column order, as sqlite3 returns them.               *)
(***************************************************************************)
EXTENDS Integers, Sequences, FiniteSets, TLC

VARIABLES
    db,          \* committed content of each database file: path -> store
    db0,         \* history: the content of each file before the first invocation
    script,      \* the script of the current process
    fn,          \* the function the process is in
    pc,          \* position inside the function
    conn,        \* the local name conn: "unbound", "open" or "closed"
    nopen,       \* number of open database connections of the process
    txn,         \* rows pending in the connection's open transaction
    out,         \* lines printed to standard output by the process
    exit,        \* "running", "normal" (exit status 0) or "traceback"
    entropy,     \* state of the process's random sources
    used,        \* the entropy states processes have started from
    semester_id, \* the local semester_id of insert_data
    pre,         \* history: content of the function's file when it connected
    snap,        \* history: the seeder's file after each successful commit
    committed,   \* history: conn.commit() returned in the current process
    seeds        \* number of seeder invocations so far

vars == <<db, db0, script, fn, pc, conn, nopen, txn, out, exit, entropy, used,
          semester_id, pre, snap, committed, seeds>>

-----------------------------------------------------------------------------
(* Bounds *)

\* seeder invocations explored in one behaviour
MaxSeeds == 2

\* states of the random sources a process can start with: 0..MaxEntropy
MaxEntropy == 2

-----------------------------------------------------------------------------
(* Program constants *)

\* number of tuples in accounts_to_insert
N == 4

\* k of random.choices in generate_random_school_id
CodeLen == 8

\* number of names unpacked from a row by show_school_account_details
UnpackWidth == 13

SeederPath == "latest_db_nov_27.db"

ShowTablePath == "latest_db_nov_27.db"

ShowAccountsPath == "latest_db_nov_27v1.db"

Paths == {SeederPath, ShowTablePath, ShowAccountsPath}

\* DB_PATH of the script a process runs
DB_PATH(s) ==
    CASE s = "insertSchoolAccounts.py" -> SeederPath
      [] s = "showTable.py"            -> ShowTablePath
      [] OTHER                         -> ShowAccountsPath

semester_label == "2023-2024 Second Semester"

\* string.ascii_letters + string.digits
Alphabet ==
    << "a","b","c","d","e","f","g","h","i","j","k","l","m",
       "n","o","p","q","r","s","t","u","v","w","x","y","z",
       "A","B","C","D","E","F","G","H","I","J","K","L","M",
       "N","O","P","Q","R","S","T","U","V","W","X","Y","Z",
       "0","1","2","3","4","5","6","7","8","9" >>

\* the columns named by the INSERT INTO semesters statement
SemesterColumns == <<"id", "label">>

\* the columns named by the INSERT INTO school_accounts statement
AccountColumns ==
    << "id", "school_id", "first_name", "middle_name", "last_name",
       "gender", "course", "department", "position", "major", "year_level",
       "is_active", "last_updated_semester_id" >>

\* the literal fields of the four sample tuples (columns 3..12)
SampleFields ==
    << <<"John", "Doe", "Smith", 0, "Computer Science", "Engineering",
         "Student", "Software Engineering", "3rd Year", 1>>,
       <<"Jane", "Mary", "Johnson", 1, "Information Technology", "Engineering",
         "Student", "Network Security", "2nd Year", 1>>,
       <<"Michael", "Lee", "Taylor", 0, "Civil Engineering", "Engineering",
         "Student", "Structural Design", "4th Year", 1>>,
       <<"Emily", "Anne", "Brown", 1, "Electronics Engineering", "Engineering",
         "Student", "Robotics", "3rd Year", 1>> >>

-----------------------------------------------------------------------------
(* Random sources.  The values a process draws are a function of the state *)
(* its random sources start in (entropy) and of the number of the call.    *)

\* str(uuid.uuid4()): the k-th identifier drawn by a process; an identifier
\* is modelled by a number; no two calls return the same identifier, as no
\* two seeder processes start from the same entropy
uuid4(e, k) == e * (N + 1) + k

\* random.choices(population, k=k): k independent picks with replacement,
\* each population[floor(random() * len(population))]
random_choices(population, k, e, call) ==
    [i \in 1..k |-> population[((e * 31 + call * 17 + i * 7) % Len(population)) + 1]]

\* variant: one character short
generate_short_school_id(e, call) ==
    random_choices(Alphabet, CodeLen - 1, e, call)

\* generate_random_school_id(): ''.join(random.choices(..., k=8)); the
\* string is kept as the sequence of its characters
generate_random_school_id(e, call) ==
    random_choices(Alphabet, CodeLen, e, call)

\* variant: the last column holds the account's own id
accounts_to_insert_own_id(e, sid) ==
    [j \in 1..N |->
        <<uuid4(e, j + 1), generate_random_school_id(e, j)>>
            \o SampleFields[j] \o <<uuid4(e, j + 1)>>]

\* the tuple list of insert_data: uuid4 calls 2..N+1 follow the semester's
accounts_to_insert(e, sid) ==
    [j \in 1..N |->
        <<uuid4(e, j + 1), generate_random_school_id(e, j)>>
            \o SampleFields[j] \o <<sid>>]

-----------------------------------------------------------------------------
(* The store: a database file.  tables is sqlite_master in creation order, *)
(* each entry a table name with its column names; the two row lists are    *)
(* the tables the scripts read and write, in rowid order.                  *)

Range(f) == {f[i] : i \in DOMAIN f}

EmptyTxn == [semesters |-> <<>>, school_accounts |-> <<>>]

HasTable(store, t) == \E i \in DOMAIN store.tables : store.tables[i].name = t

TableColumns(store, t) ==
    IF HasTable(store, t)
    THEN (CHOOSE x \in Range(store.tables) : x.name = t).columns
    ELSE <<>>

\* variant: the column list is not checked against the table
CanInsertAnyColumns(store, t, cols) == HasTable(store, t)

\* an INSERT INTO t (cols) prepares only if t exists and has every column
CanInsert(store, t, cols) ==
    HasTable(store, t) /\ Range(cols) \subseteq Range(TableColumns(store, t))

\* what the connection sees: committed rows followed by its pending rows
View(store, t) ==
    [store EXCEPT !.semesters = @ \o t.semesters,
                  !.school_accounts = @ \o t.school_accounts]

\* cursor.execute(INSERT INTO semesters ...): the row joins the transaction
execute_insert_semester(t, sid, label) ==
    [t EXCEPT !.semesters = Append(@, <<sid, label>>)]

\* cursor.executemany(INSERT INTO school_accounts ...): rows are inserted in
\* order; failAt = 0 inserts all, failAt = i raises on row i with rows
\* 1..i-1 left pending in the transaction
executemany_insert_accounts(t, rows, failAt) ==
    [t EXCEPT !.school_accounts =
        @ \o SubSeq(rows, 1, IF failAt = 0 THEN Len(rows) ELSE failAt - 1)]

\* variant: the pending rows replace the tables' content
conn_commit_replacing(store, t) ==
    [store EXCEPT !.semesters = t.semesters,
                  !.school_accounts = t.school_accounts]

\* conn.commit(): the pending rows become part of the file
conn_commit(store, t) == View(store, t)

\* variant: closing commits a transaction still open
conn_close_committing(store, t) == View(store, t)

\* conn.close(): a transaction still open is rolled back
conn_close(store, t) == store

-----------------------------------------------------------------------------
(* Console output: a line is <<text, value>>.                              *)

Line(text, value) == <<text, value>>

\* except Exception as e: print(f'Error occurred: {str(e)}')
ErrorLine(e) == Line("Error occurred: ", e)

Printed(text) == \E i \in DOMAIN out : out[i][1] = text

CountPrinted(text) == Cardinality({i \in DOMAIN out : out[i][1] = text})

\* the lines printed for the columns of one table
ColumnLines(columns) ==
    IF columns # <<>>
    THEN <<Line("Columns:", "")>> \o [i \in DOMAIN columns |-> Line("", columns[i])]
    ELSE <<Line("No columns found.", "")>>

RECURSIVE TableLines(_)
TableLines(tables) ==
    IF tables = <<>> THEN <<>>
    ELSE <<Line("Table: ", Head(tables).name)>>
            \o ColumnLines(Head(tables).columns)
            \o TableLines(Tail(tables))

\* the output of show_tables_and_columns for the tables of a file
TablesReport(tables) ==
    IF tables # <<>>
    THEN <<Line("Tables in the database:", "")>> \o TableLines(tables)
    ELSE <<Line("No tables found in the database.", "")>>

\* the eleven lines printed for one unpacked row
AccountLines(account) ==
    << Line("ID: ", account[1]),
       Line("School ID: ", account[2]),
       Line("Name: ", <<account[3], account[4], account[5]>>),
       Line("Gender: ", account[6]),
       Line("Course: ", account[7]),
       Line("Department: ", account[8]),
       Line("Position: ", account[9]),
       Line("Major: ", account[10]),
       Line("Year Level: ", account[11]),
       Line("Active: ", account[12]),
       Line("Last Updated: ", account[13]) >>

\* the for loop over accounts: unpacking a row into 13 names raises
\* ValueError unless the row has exactly 13 values
RECURSIVE DumpLines(_)
DumpLines(accounts) ==
    IF accounts = <<>> THEN <<>>
    ELSE IF Len(Head(accounts)) # UnpackWidth
         THEN <<ErrorLine("ValueError: values to unpack")>>
         ELSE AccountLines(Head(accounts)) \o DumpLines(Tail(accounts))

\* variant: the count is taken from the other table
select_count_wrong_table(store) == Len(store.semesters)

\* SELECT COUNT(*) FROM school_accounts
select_count_accounts(store) == Len(store.school_accounts)

\* SELECT COUNT(*) FROM semesters
select_count_semesters(store) == Len(store.semesters)

-----------------------------------------------------------------------------
(* States a database file can be in before the first invocation.           *)

ExtendedSchema ==
    << [name |-> "semesters", columns |-> SemesterColumns],
       [name |-> "school_accounts", columns |-> AccountColumns] >>

\* the 5-column form of school_accounts: identity and name columns only
MinimalSchema ==
    << [name |-> "semesters", columns |-> SemesterColumns],
       [name |-> "school_accounts", columns |-> SubSeq(AccountColumns, 1, 5)] >>

\* a file sqlite3.connect has just created: no tables
FreshStore == [tables |-> <<>>, semesters |-> <<>>, school_accounts |-> <<>>]

EmptyExtended ==
    [tables |-> ExtendedSchema, semesters |-> <<>>, school_accounts |-> <<>>]

EmptyMinimal ==
    [tables |-> MinimalSchema, semesters |-> <<>>, school_accounts |-> <<>>]

\* content of a file after one complete run of the seeder's statements
SeededOnce(store, e) ==
    conn_commit(store,
        executemany_insert_accounts(
            execute_insert_semester(EmptyTxn, uuid4(e, 1), semester_label),
            accounts_to_insert(e, uuid4(e, 1)), 0))

\* the entropy of the process that wrote the rows a file first holds
PriorEntropy == MaxEntropy + 1

\* a 5-column file holding one row
MinimalOneRow ==
    [EmptyMinimal EXCEPT !.school_accounts =
        << <<uuid4(PriorEntropy, 2), generate_random_school_id(PriorEntropy, 1),
             "John", "Doe", "Smith">> >>]

StoreSamples ==
    {FreshStore, EmptyExtended, EmptyMinimal,
     SeededOnce(EmptyExtended, PriorEntropy), MinimalOneRow}

-----------------------------------------------------------------------------
(* The processes.                                                          *)

Scripts == {"insertSchoolAccounts.py", "showTable.py", "showSchoolAccounts.py"}

\* the first call of each script's __main__ block
FirstCall(s) ==
    IF s = "insertSchoolAccounts.py" THEN "insert_data" ELSE "show_tables_and_columns"

File == DB_PATH(script)

Init ==
    /\ db \in [Paths -> StoreSamples]
    /\ db0 = db
    /\ script = "showTable.py"
    /\ fn = "none"
    /\ pc = "idle"
    /\ conn = "unbound"
    /\ nopen = 0
    /\ txn = EmptyTxn
    /\ out = <<>>
    /\ exit = "none"
    /\ entropy = 0
    /\ used = {}
    /\ semester_id = 0
    /\ pre = db[ShowTablePath]
    /\ snap = <<>>
    /\ committed = FALSE
    /\ seeds = 0

\* python3 <script>: a new process starts at the first call of __main__
Start(s) ==
    /\ pc = "idle"
    /\ s = "insertSchoolAccounts.py" => seeds < MaxSeeds
    /\ script' = s
    /\ fn' = FirstCall(s)
    /\ pc' = "connect"
    /\ conn' = "unbound"
    /\ txn' = EmptyTxn
    /\ out' = <<>>
    /\ exit' = "running"
    /\ entropy' \in (IF s = "insertSchoolAccounts.py" THEN (0..MaxEntropy) \ used ELSE {0})
    /\ used' = IF s = "insertSchoolAccounts.py" THEN used \cup {entropy'} ELSE used
    /\ semester_id' = 0
    /\ pre' = db[DB_PATH(s)]
    /\ seeds' = IF s = "insertSchoolAccounts.py" THEN seeds + 1 ELSE seeds
    /\ committed' = FALSE
    /\ UNCHANGED <<db, db0, nopen, snap>>

\* a statement of the try block raises: the except clause prints the error
\* and control reaches the finally clause
Raise(e) ==
    /\ out' = Append(out, ErrorLine(e))
    /\ pc' = "finally"

\* conn = sqlite3.connect(DB_PATH); cursor = conn.cursor()
\* connect raises when the file cannot be opened, before conn is bound
Connect ==
    /\ pc = "connect"
    /\ \E ok \in BOOLEAN :
        IF ok
        THEN /\ conn' = "open"
             /\ nopen' = nopen + 1
             /\ pc' = CASE fn = "insert_data" -> "insert_semester"
                        [] fn = "show_tables_and_columns" -> "tables"
                        [] OTHER -> "count"
             /\ UNCHANGED out
        ELSE /\ Raise("unable to open database file")
             /\ UNCHANGED <<conn, nopen>>
    /\ UNCHANGED <<db, db0, script, fn, txn, exit, entropy, semester_id, pre,
                   snap, committed, used, seeds>>

\* semester_id = str(uuid.uuid4()); INSERT INTO semesters; print
InsertSemester ==
    /\ pc = "insert_semester"
    /\ LET sid == uuid4(entropy, 1) IN
       /\ semester_id' = sid
       /\ \E ok \in {b \in BOOLEAN : b => CanInsert(db[File], "semesters", SemesterColumns)} :
            IF ok
            THEN /\ txn' = execute_insert_semester(txn, sid, semester_label)
                 /\ out' = Append(out, Line("Created semester with ID: ", sid))
                 /\ pc' = "insert_accounts"
            ELSE /\ Raise("INSERT INTO semesters failed")
                 /\ UNCHANGED txn
    /\ UNCHANGED <<db, db0, script, fn, conn, nopen, exit, entropy, pre, snap, committed, used, seeds>>

\* accounts_to_insert = [...]; cursor.executemany(INSERT INTO school_accounts ...)
\* the statement does not prepare unless the table has the 13 columns;
\* otherwise it may raise on any row, the rows before it staying pending
InsertAccounts ==
    /\ pc = "insert_accounts"
    /\ IF CanInsert(db[File], "school_accounts", AccountColumns)
       THEN \E failAt \in 0..N :
              /\ txn' = executemany_insert_accounts(
                            txn, accounts_to_insert(entropy, semester_id), failAt)
              /\ IF failAt = 0
                 THEN pc' = "commit" /\ UNCHANGED out
                 ELSE Raise("INSERT INTO school_accounts failed")
       ELSE /\ Raise("table school_accounts has no column named gender")
            /\ UNCHANGED txn
    /\ UNCHANGED <<db, db0, script, fn, conn, nopen, exit, entropy, semester_id,
                   pre, snap, committed, used, seeds>>

\* variant: the success line is printed before commit() is called
CommitPrintFirst ==
    /\ pc = "commit"
    /\ \E ok \in BOOLEAN :
        IF ok
        THEN /\ db' = [db EXCEPT ![File] = conn_commit(@, txn)]
             /\ txn' = EmptyTxn
             /\ snap' = Append(snap, db'[File])
             /\ committed' = TRUE
             /\ out' = Append(out, Line("Data inserted successfully.", ""))
             /\ pc' = "verify"
        ELSE /\ out' = out \o << Line("Data inserted successfully.", ""),
                                 ErrorLine("commit failed") >>
             /\ pc' = "finally"
             /\ UNCHANGED <<db, txn, snap, committed>>
    /\ UNCHANGED <<db0, script, fn, conn, nopen, exit, entropy, semester_id,
                   pre, used, seeds>>

\* conn.commit(); print("Data inserted successfully.")
Commit ==
    /\ pc = "commit"
    /\ \E ok \in BOOLEAN :
        IF ok
        THEN /\ db' = [db EXCEPT ![File] = conn_commit(@, txn)]
             /\ txn' = EmptyTxn
             /\ snap' = Append(snap, db'[File])
             /\ committed' = TRUE
             /\ out' = Append(out, Line("Data inserted successfully.", ""))
             /\ pc' = "verify"
        ELSE /\ Raise("commit failed")
             /\ UNCHANGED <<db, txn, snap, committed>>
    /\ UNCHANGED <<db0, script, fn, conn, nopen, exit, entropy, semester_id,
                   pre, used, seeds>>

\* the two SELECT COUNT(*) queries and the three Verification prints
Verify ==
    /\ pc = "verify"
    /\ \E ok \in BOOLEAN :
        IF ok
        THEN /\ out' = out \o
                  << Line("Verification:", ""),
                     Line("- Semesters in database: ",
                          select_count_semesters(View(db[File], txn))),
                     Line("- School accounts in database: ",
                          select_count_accounts(View(db[File], txn))) >>
             /\ pc' = "finally"
        ELSE Raise("SELECT COUNT(*) failed")
    /\ UNCHANGED <<db, db0, script, fn, conn, nopen, txn, exit, entropy,
                   semester_id, pre, snap, committed, used, seeds>>

\* SELECT name FROM sqlite_master; PRAGMA table_info per table; prints
ShowTables ==
    /\ pc = "tables"
    /\ \E ok \in BOOLEAN :
        IF ok
        THEN /\ out' = out \o TablesReport(db[File].tables)
             /\ pc' = "finally"
        ELSE Raise("SELECT name FROM sqlite_master failed")
    /\ UNCHANGED <<db, db0, script, fn, conn, nopen, txn, exit, entropy,
                   semester_id, pre, snap, committed, used, seeds>>

\* SELECT COUNT(*) FROM school_accounts; print the total
CountAccounts ==
    /\ pc = "count"
    /\ \E ok \in {b \in BOOLEAN : b => HasTable(db[File], "school_accounts")} :
        IF ok
        THEN /\ out' = Append(out, Line("Total number of school accounts: ",
                                        select_count_accounts(View(db[File], txn))))
             /\ pc' = "dump"
        ELSE Raise("SELECT COUNT(*) FROM school_accounts failed")
    /\ UNCHANGED <<db, db0, script, fn, conn, nopen, txn, exit, entropy,
                   semester_id, pre, snap, committed, used, seeds>>

\* SELECT * FROM school_accounts; print every row or the empty message
DumpAccounts ==
    /\ pc = "dump"
    /\ \E ok \in BOOLEAN :
        IF ok
        THEN LET accounts == View(db[File], txn).school_accounts IN
             /\ out' = out \o
                  (IF accounts # <<>>
                   THEN <<Line("Details of each account:", "")>> \o DumpLines(accounts)
                   ELSE <<Line("No school accounts found.", "")>>)
             /\ pc' = "finally"
        ELSE Raise("SELECT * FROM school_accounts failed")
    /\ UNCHANGED <<db, db0, script, fn, conn, nopen, txn, exit, entropy,
                   semester_id, pre, snap, committed, used, seeds>>

\* variant: close() at the end of the try block instead of in finally
FinallyCloseOnSuccessOnly ==
    /\ pc = "finally"
    /\ IF conn = "unbound"
       THEN /\ pc' = "idle"
            /\ exit' = "traceback"
            /\ fn' = "none"
            /\ UNCHANGED <<db, conn, nopen, txn>>
       ELSE IF Printed("Error occurred: ")
            THEN /\ pc' = "returned"
                 /\ UNCHANGED <<db, conn, nopen, txn, exit, fn>>
            ELSE /\ db' = [db EXCEPT ![File] = conn_close(@, txn)]
                 /\ txn' = EmptyTxn
                 /\ conn' = "closed"
                 /\ nopen' = nopen - 1
                 /\ pc' = "returned"
                 /\ UNCHANGED <<exit, fn>>
    /\ UNCHANGED <<db0, script, out, entropy, semester_id, pre, snap, committed, used, seeds>>

\* finally: if conn: conn.close()
\* with conn never bound, evaluating it raises UnboundLocalError, which
\* leaves the function and ends the process with a traceback
Finally ==
    /\ pc = "finally"
    /\ IF conn = "unbound"
       THEN /\ pc' = "idle"
            /\ exit' = "traceback"
            /\ fn' = "none"
            /\ UNCHANGED <<db, conn, nopen, txn>>
       ELSE /\ db' = [db EXCEPT ![File] = conn_close(@, txn)]
            /\ txn' = EmptyTxn
            /\ conn' = "closed"
            /\ nopen' = nopen - 1
            /\ pc' = "returned"
            /\ UNCHANGED <<exit, fn>>
    /\ UNCHANGED <<db0, script, out, entropy, semester_id, pre, snap, committed, used, seeds>>

\* showSchoolAccounts.py __main__: the second call follows the first
NextCall ==
    /\ pc = "returned"
    /\ script = "showSchoolAccounts.py"
    /\ fn = "show_tables_and_columns"
    /\ fn' = "show_school_account_details"
    /\ pc' = "connect"
    /\ conn' = "unbound"
    /\ pre' = db[File]
    /\ UNCHANGED <<db, db0, script, nopen, txn, out, exit, entropy, semester_id,
                   snap, committed, used, seeds>>

\* the last call of __main__ returned: the process exits with status 0
Exit ==
    /\ pc = "returned"
    /\ ~(script = "showSchoolAccounts.py" /\ fn = "show_tables_and_columns")
    /\ pc' = "idle"
    /\ exit' = "normal"
    /\ UNCHANGED <<db, db0, script, fn, conn, nopen, txn, out, entropy,
                   semester_id, pre, snap, committed, used, seeds>>

Next ==
    \/ \E s \in Scripts : Start(s)
    \/ Connect
    \/ InsertSemester
    \/ InsertAccounts
    \/ Commit
    \/ Verify
    \/ ShowTables
    \/ CountAccounts
    \/ DumpAccounts
    \/ Finally
    \/ NextCall
    \/ Exit

Spec == Init /\ [][Next]_vars

-----------------------------------------------------------------------------
(* Properties.                                                             *)

Seeder == "insertSchoolAccounts.py"

Inspector == "showSchoolAccounts.py"

IsPrefix(a, b) == Len(a) <= Len(b) /\ SubSeq(b, 1, Len(a)) = a

\* the function has returned, or the process has ended
Returned == pc \in {"returned", "idle"}

\* b holds m semesters rows and n school_accounts rows more than a
Gained(a, b, m, n) ==
    /\ Len(b.semesters) = Len(a.semesters) + m
    /\ Len(b.school_accounts) = Len(a.school_accounts) + n

Labels(store) == {r[2] : r \in Range(store.semesters)}

Names(store) == {<<r[3], r[4], r[5]>> : r \in Range(store.school_accounts)}

\* C1: atomicity of insert_data.  In every state of a seeder process, from
\* any prior content of the file: once commit() has returned the file holds
\* exactly 1 semesters row and N school_accounts rows more than when the
\* process started, and until then (and for good, if the run fails at the
\* semester INSERT, at any row of executemany, or at the commit) the file is
\* exactly as it was; so no semester with fewer than N accounts is persisted.
C1_Atomicity ==
    script = Seeder =>
        IF committed
        THEN /\ Gained(pre, db[SeederPath], 1, N)
             /\ IsPrefix(pre.semesters, db[SeederPath].semesters)
             /\ IsPrefix(pre.school_accounts, db[SeederPath].school_accounts)
        ELSE db[SeederPath] = pre

\* a seeder run on a file that already held rows returned after the
\* semester INSERT succeeded and a later statement failed
C1_Witness ==
    /\ script = Seeder
    /\ pc = "returned"
    /\ ~committed
    /\ Printed("Created semester with ID: ")
    /\ Printed("Error occurred: ")
    /\ pre.school_accounts # <<>>
    /\ db[SeederPath] = pre

\* C2: no exception leaves a script's function: every process ends with
\* exit status 0, whatever step failed, the connect step included.
C2_NoExceptionPropagates == exit # "traceback"

\* C3: referential integrity across runs.  Starting from empty tables, the
\* k-th committed call contributes semesters row k and school_accounts rows
\* N(k-1)+1 .. Nk; every school_accounts row's last_updated_semester_id
\* (column 13) equals the id of the semesters row of its own call, and that
\* row is in the file.
C3_ReferentialIntegrity ==
    \A p \in Paths :
        (db0[p].semesters = <<>> /\ db0[p].school_accounts = <<>>) =>
            \A j \in DOMAIN db[p].school_accounts :
                LET call == ((j - 1) \div N) + 1 IN
                /\ call \in DOMAIN db[p].semesters
                /\ db[p].school_accounts[j][13] = db[p].semesters[call][1]

\* two committed calls, with different semester ids, on a file whose tables
\* started empty
C3_Witness ==
    /\ db0[SeederPath] = EmptyExtended
    /\ Len(snap) = 2
    /\ Len(db[SeederPath].semesters) = 2
    /\ db[SeederPath].semesters[1][1] # db[SeederPath].semesters[2][1]

\* C4 as claimed: after two or more successful seeder runs the file has the
\* same content (row counts, labels, names) as after one.
C4_Idempotent ==
    \A k \in DOMAIN snap :
        /\ Len(snap[k].semesters) = Len(snap[1].semesters)
        /\ Len(snap[k].school_accounts) = Len(snap[1].school_accounts)
        /\ Labels(snap[k]) = Labels(snap[1])
        /\ Names(snap[k]) = Names(snap[1])

\* C4 amended: the k-th successful seeder run leaves k semesters rows and
\* N*k school_accounts rows more than the file first held; only the sets of
\* labels and of names are the same as after one run.
C4_SeedingAccumulates ==
    \A k \in DOMAIN snap :
        /\ Gained(db0[SeederPath], snap[k], k, N * k)
        /\ Labels(snap[k]) = Labels(snap[1])
        /\ Names(snap[k]) = Names(snap[1])

\* the seeder has committed twice
C4_Witness ==
    /\ Len(snap) = 2
    /\ script = Seeder
    /\ committed
    /\ pc = "idle"

\* C5: connection discipline.  At most one connection is open at any point,
\* the name conn is bound to an open connection exactly while one is open,
\* and none is open when a function is entered, has returned, or the
\* process has ended, on success and on every failure path.
C5_ConnectionDiscipline ==
    /\ nopen <= 1
    /\ (conn = "open") <=> (nopen = 1)
    /\ pc \in {"connect", "returned", "idle"} => nopen = 0

\* the second function of showSchoolAccounts.py holds its connection after
\* the first function failed and returned
C5_Witness ==
    /\ script = Inspector
    /\ fn = "show_school_account_details"
    /\ Printed("Error occurred: ")
    /\ conn = "open"
    /\ nopen = 1

\* position of the total line in the output, 0 if it was not printed
TotalAt ==
    IF Printed("Total number of school accounts: ")
    THEN CHOOSE i \in DOMAIN out : out[i][1] = "Total number of school accounts: "
    ELSE 0

\* show_school_account_details returned having run both queries and the
\* print loop without an exception
DetailsCompleted ==
    /\ script = Inspector
    /\ fn = "show_school_account_details"
    /\ Returned
    /\ TotalAt > 0
    /\ \A i \in DOMAIN out : i > TotalAt => out[i][1] # "Error occurred: "

\* C6: inspector count report.  The total printed by
\* show_school_account_details is the number of committed school_accounts
\* rows of its file; when the function completes it has dumped that many
\* rows, and printed 'No school accounts found.' exactly when the table is
\* empty; on a file holding one successful seed of N = 4 extended-form
\* records the total is 4 and 4 rows are dumped.
C6_InspectorCount ==
    LET accounts == db[ShowAccountsPath].school_accounts IN
    /\ (script = Inspector /\ TotalAt > 0) => out[TotalAt][2] = Len(accounts)
    /\ DetailsCompleted =>
        /\ CountPrinted("ID: ") = Len(accounts)
        /\ Printed("No school accounts found.") <=> (accounts = <<>>)
        /\ (\E e \in 0..PriorEntropy : db[ShowAccountsPath] = SeededOnce(EmptyExtended, e))
              => (out[TotalAt][2] = 4 /\ CountPrinted("ID: ") = 4)

\* the inspector completed on a file holding one successful seed
C6_Witness ==
    /\ DetailsCompleted
    /\ db[ShowAccountsPath] = SeededOnce(EmptyExtended, PriorEntropy)
    /\ out[TotalAt][2] = 4
    /\ CountPrinted("Name: ") = 4
    /\ exit = "normal"

\* C7: rows are never modified or removed.  Every step leaves every row of
\* every file in place and unchanged (the tables only grow at the end), the
\* schema untouched, and outside insert_data leaves the files as they are.
C7_RowsNeverChange ==
    [][ /\ \A p \in Paths :
            /\ IsPrefix(db[p].semesters, db'[p].semesters)
            /\ IsPrefix(db[p].school_accounts, db'[p].school_accounts)
            /\ db'[p].tables = db[p].tables
        /\ fn # "insert_data" => db' = db
      ]_vars

\* an inspector ran to its end on a file the seeder had extended beyond the
\* rows it first held
C7_Witness ==
    /\ script = "showTable.py"
    /\ pc = "idle"
    /\ exit = "normal"
    /\ Printed("Tables in the database:")
    /\ db0[SeederPath].semesters # <<>>
    /\ Len(db[SeederPath].semesters) > Len(db0[SeederPath].semesters)

\* the 62 alphanumeric symbols
Alnum ==
    { "A","B","C","D","E","F","G","H","I","J","K","L","M",
      "N","O","P","Q","R","S","T","U","V","W","X","Y","Z" }
    \cup
    { "a","b","c","d","e","f","g","h","i","j","k","l","m",
      "n","o","p","q","r","s","t","u","v","w","x","y","z" }
    \cup
    { "0","1","2","3","4","5","6","7","8","9" }

\* C8: short code shape.  Every school_id the seeder has generated, pending
\* or committed, has exactly 8 characters, each one of the 62 alphanumeric
\* symbols; nothing makes two rows' codes differ.
C8_ShortCodeShape ==
    /\ Cardinality(Alnum) = 62
    /\ \A r \in Range(View(db[SeederPath], txn).school_accounts) :
        /\ Len(r[2]) = 8
        /\ \A i \in 1..Len(r[2]) : r[2][i] \in Alnum

\* the seeder committed its N rows after the rows of an earlier seed
C8_Witness ==
    /\ script = Seeder
    /\ committed
    /\ Len(db[SeederPath].school_accounts) = 2 * N
    /\ db[SeederPath].school_accounts[1][2] # db[SeederPath].school_accounts[N + 1][2]

C10_ConsoleVersusStore ==
    script = Seeder =>
        /\ Printed("Data inserted successfully.")
              <=> (committed /\ Gained(pre, db[SeederPath], 1, N))
        /\ (Printed("Created semester with ID: ") /\ Returned
              /\ ~Printed("Data inserted successfully."))
              => (db[SeederPath] = pre /\ Printed("Error occurred: "))
        /\ (Printed("Data inserted successfully.") /\ Printed("Error occurred: "))
              => (/\ Gained(pre, db[SeederPath], 1, N)
                  /\ db[SeederPath].semesters[Len(db[SeederPath].semesters)][1]
                        = semester_id)

\* the verification queries failed after the commit: success line, then
\* error line, rows in the file
C10_Witness ==
    /\ script = Seeder
    /\ pc = "idle"
    /\ exit = "normal"
    /\ Printed("Data inserted successfully.")
    /\ Printed("Error occurred: ")
    /\ ~Printed("Verification:")
    /\ db[SeederPath] # pre

====
